---- MODULE Spec2Model ----
(***************************************************************************)
(* Model of bgs/bgs.go: the federation relay's ingestion router           *)
(* (handleFedEvent), identity resolution (createExternalUser) and the     *)
(* /events streaming endpoint (EventsHandler).                            *)
(*                                                                         *)
(* Go strings are sequences of tokens (<<"https", "://", "pds.a">> is     *)
(* "https://pds.a"), so that url.Parse and strconv.ParseInt are computed, *)
(* and a Go pointer is a sequence of length 0 (nil) or 1.                 *)
(***************************************************************************)
EXTENDS Integers, Sequences, FiniteSets, TLC

\* ------------------------------------------------------------------ bounds
MaxCalls == 2
MaxEvents == 3

\* ------------------------------------------------------------------ inputs
Workers == {"w1", "w2"}
Dids == {"did:plc:a", "did:plc:b"}

EpA == <<"https", "://", "pds.a">>
EpLocal == <<"https", "://", "localhost", ":", "2583">>
EpBad == <<"%">>
ServiceLists == {<<>>, <<EpA>>, <<EpLocal, EpA>>, <<EpBad>>}

AkaAlice == <<"at", "://", "alice.test">>
AkaBob == <<"at", "://", "bob.test">>
AkaLists == {<<>>, <<AkaAlice, AkaBob>>, <<EpBad>>}

Profiles == [Handle : {<<"alice.test">>, <<>>},
             DisplayName : {<<>>, <<"Name">>}]

SrcHosts == {[ID |-> 1, Host |-> <<"pds.a">>]}
FedEvents == [Seq : {1}, Repo : Dids, RepoAppend : {<<>>, <<[Prev |-> "rev0"]>>}]
MergeResults == {"nil", "ErrRepoBaseMismatch", "other"}

\* ------------------------------------------------------------------ strings
BadTokens == {"%"}

\* net/url Parse: an escape error fails; "scheme://host" splits; anything else
\* is a path with an empty host.
UrlParse(s) ==
    IF \E i \in 1..Len(s) : s[i] \in BadTokens
    THEN [ok |-> FALSE, Scheme |-> "", Host |-> <<>>, Path |-> <<>>]
    ELSE IF Len(s) >= 2 /\ s[2] = "://"
         THEN [ok |-> TRUE, Scheme |-> s[1], Host |-> SubSeq(s, 3, Len(s)), Path |-> <<>>]
         ELSE [ok |-> TRUE, Scheme |-> "", Host |-> <<>>, Path |-> s]

HasPrefixLocalhost(h) == Len(h) >= 2 /\ h[1] = "localhost" /\ h[2] = ":"

\* durl after the loopback override of the scheme
LoopbackOverride(durl) ==
    IF HasPrefixLocalhost(durl.Host) THEN [durl EXCEPT !.Scheme = "http"] ELSE durl

\* URL.String()
UrlString(u) ==
    IF u.Scheme = "" /\ u.Host = <<>> THEN u.Path
    ELSE (IF u.Scheme = "" THEN <<>> ELSE <<u.Scheme>>) \o <<"://">> \o u.Host

\* c.Host of the xrpc client built for a service endpoint
ClientHost(svc) == UrlString(LoopbackOverride(UrlParse(svc)))


\* ------------------------------------------------------------------ state
VARIABLES
    users,       \* table of User rows (gorm.Model: ID = insertion index)
    pdss,        \* table of models.PDS rows
    actorInfos,  \* table of models.ActorInfo rows
    catchup,     \* items handed to Index.Crawler.AddToCatchupQueue
    userOrigin,  \* per User row: the two handles seen by the creating call
    pdsOrigin,   \* per PDS row: probe state of the creating call
    crashed,     \* the process died on an unrecovered panic
    calls,       \* number of handler invocations started so far
    pc,          \* per worker: position in handleFedEvent / createExternalUser
    loc,         \* per worker: the locals of the running call
    obs,         \* per worker: what the running call has done so far
    evlog,       \* the event log (RepoEvents in publish order)
    subs,        \* registered subscriptions of the EventManager
    chans,       \* per connection: the delivery channel evts
    chclosed,    \* per connection: the delivery channel has been closed
    hpc,         \* per connection: position in EventsHandler
    hloc,        \* per connection: locals of EventsHandler
    frames,      \* per connection: finalized websocket frames
    wc           \* per connection: the frame being written (nil or one frame)

ingestVars == <<users, pdss, actorInfos, catchup, userOrigin, pdsOrigin, crashed,
                calls, pc, loc, obs>>
eventVars == <<evlog, subs, chans, chclosed, hpc, hloc, frames, wc>>
vars == <<users, pdss, actorInfos, catchup, userOrigin, pdsOrigin, crashed,
          calls, pc, loc, obs, evlog, subs, chans, chclosed, hpc, hloc, frames, wc>>

ZeroPDS == [ID |-> 0, Host |-> <<>>, Did |-> ""]
ZeroUser == [ID |-> 0, Handle |-> <<>>, Did |-> "", PDS |-> 0]
ZeroProfile == [Handle |-> <<>>, DisplayName |-> <<>>]
ZeroLoc == [op |-> "none", host |-> [ID |-> 0, Host |-> <<>>],
            evt |-> [Seq |-> 0, Repo |-> "", RepoAppend |-> <<>>],
            did |-> "", svc |-> <<>>, aka |-> <<>>, peering |-> ZeroPDS,
            handle |-> <<>>, profile |-> ZeroProfile, uid |-> 0,
            merge |-> "none", ret |-> <<>>]
ZeroObs == [lookups |-> 0, found |-> FALSE, resolves |-> 0, nsvc |-> -1,
            probes |-> 0, probe |-> "none", profiles |-> 0, profile |-> "none",
            resolved |-> "none", merges |-> 0,
            enq |-> 0, enqIdx |-> 0, mkUser |-> 0, mkAI |-> 0, mkPds |-> 0,
            known |-> FALSE, lostRace |-> FALSE, ai |-> "none"]

\* ------------------------------------------------------------------ store
\* db.Find(&u, "did = ?", did): the row, or the zero value
FindUserByDid(did) ==
    LET m == {i \in 1..Len(users) : users[i].Did = did}
    IN IF m = {} THEN ZeroUser ELSE users[CHOOSE i \in m : TRUE]

\* db.Find(&peering, "host = ?", host)
FindPdsByHost(host) ==
    LET m == {i \in 1..Len(pdss) : pdss[i].Host = host}
    IN IF m = {} THEN ZeroPDS ELSE pdss[CHOOSE i \in m : \A j \in m : i <= j]

\* faulty variant: the users table without its unique indexes
UserUniqueViolationNone(u) == FALSE
\* uniqueIndex on User.Did and on User.Handle
UserUniqueViolation(u) ==
    \E i \in 1..Len(users) : users[i].Did = u.Did \/ users[i].Handle = u.Handle

\* unique constraint on the peering table's host column
PdsUniqueViolation(p) == \E i \in 1..Len(pdss) : pdss[i].Host = p.Host

\* Index.LookupUser(ctx, uid): the ActorInfo with that Uid, or none
LookupUser(uid) ==
    LET m == {i \in 1..Len(actorInfos) : actorInfos[i].Uid = uid}
    IN IF m = {} THEN <<>> ELSE <<actorInfos[CHOOSE i \in m : TRUE]>>

\* ------------------------------------------------------------------ helpers
Set(w, l, o, p) ==
    /\ loc' = [loc EXCEPT ![w] = l]
    /\ obs' = [obs EXCEPT ![w] = o]
    /\ pc' = [pc EXCEPT ![w] = p]

\* faulty variant: handleFedEvent goes on to the merge after a failed resolution
FailResolveContinue(w, o, err) ==
    Set(w, loc[w], [o EXCEPT !.resolved = "err"],
        IF loc[w].op = "handle" THEN "h_merge" ELSE "done")

\* createExternalUser returns (nil, err): handleFedEvent wraps the error
FailResolve(w, o, err) ==
    Set(w, [loc[w] EXCEPT !.ret = IF loc[w].op = "handle"
                                   THEN <<"fed event create external user">> \o err
                                   ELSE err],
        [o EXCEPT !.resolved = "err"], "done")

Tables == <<users, pdss, actorInfos, catchup, userOrigin, pdsOrigin>>


\* ------------------------------------------------------------------ errors
ErrDb == <<"db error">>
ErrLookup == <<"looking up event user">> \o ErrDb
ErrInvalid == <<"invalid fed event">>
ErrNoDoc == <<"could not locate DID document for followed user">>
ErrNoService == <<"had no services in did document">>
ErrUrl == <<"url parse error">>
ErrProbe == <<"failed to get accounts config for unrecognized pds">>
ErrProfile == <<"getProfile failed">>
ErrMismatch == <<"mismatch in handle between did document and pds profile">>
ErrCreateUser == <<"failed to create other pds user">>
ErrMerge == <<"merge error">>
ErrNotFound == <<"record not found">>

\* ------------------------------------------------------------------ handleFedEvent
\* faulty variant: every event is taken for a repository append
IsRepoAppendAlways(evt) == TRUE
\* the switch: case evt.RepoAppend != nil
IsRepoAppend(evt) == evt.RepoAppend # <<>>

\* a peer-host subscription delivers an event: entry and the switch
handleFedEvent(w) ==
    /\ ~crashed /\ pc[w] = "idle" /\ calls < MaxCalls
    /\ calls' = calls + 1
    /\ \E host \in SrcHosts, evt \in FedEvents :
         LET l == [ZeroLoc EXCEPT !.op = "handle", !.host = host, !.evt = evt,
                                  !.did = evt.Repo]
         IN IF IsRepoAppend(evt)
            THEN Set(w, l, ZeroObs, "h_lookup")
            ELSE Set(w, [l EXCEPT !.ret = ErrInvalid], ZeroObs, "done")
    /\ UNCHANGED <<Tables, crashed, eventVars>>

\* u, err := bgs.lookupUserByDid(ctx, evt.Repo) and the branch on the error
lookupUserByDid(w) ==
    /\ ~crashed /\ pc[w] = "h_lookup"
    /\ LET o == [obs[w] EXCEPT !.lookups = @ + 1]
           u == FindUserByDid(loc[w].evt.Repo)
       IN \/ Set(w, [loc[w] EXCEPT !.ret = ErrLookup], o, "done")
          \/ /\ u.ID = 0
             /\ Set(w, loc[w], [o EXCEPT !.resolves = @ + 1], "c_getdoc")
          \/ /\ u.ID # 0
             /\ Set(w, [loc[w] EXCEPT !.uid = u.ID], [o EXCEPT !.found = TRUE], "h_merge")
    /\ UNCHANGED <<Tables, crashed, calls, eventVars>>

\* faulty variant: every merge error is taken for a base mismatch
IsBaseMismatchAny(r) == r # "nil"
\* errors.Is(err, carstore.ErrRepoBaseMismatch)
IsBaseMismatch(r) == r = "ErrRepoBaseMismatch"

\* bgs.repoman.HandleExternalUserEvent(...) and the branch on its error
HandleExternalUserEvent(w) ==
    /\ ~crashed /\ pc[w] = "h_merge"
    /\ \E r \in MergeResults :
         LET l == [loc[w] EXCEPT !.merge = r]
             o == [obs[w] EXCEPT !.merges = @ + 1]
         IN IF r = "nil" THEN Set(w, l, o, "done")
            ELSE IF IsBaseMismatch(r) THEN Set(w, l, o, "h_lookupai")
            ELSE Set(w, [l EXCEPT !.ret = ErrMerge], o, "done")
    /\ UNCHANGED <<Tables, crashed, calls, eventVars>>

\* faulty variant: the source host is not passed on
CatchupItemNoHost(host, ai, evt) == [host |-> [ID |-> 0, Host |-> <<>>], ai |-> ai, evt |-> evt]
\* the item AddToCatchupQueue(ctx, host, ai, evt) puts on the queue
CatchupItem(host, ai, evt) == [host |-> host, ai |-> ai, evt |-> evt]

\* faulty variant: the lookup's error is ignored and the event enqueued anyway
AddToCatchupQueueAnyway(w) ==
    /\ ~crashed /\ pc[w] = "h_lookupai"
    /\ LET ai == LookupUser(loc[w].uid)
           rec == IF ai = <<>> THEN [Uid |-> 0] ELSE ai[1]
       IN /\ catchup' = Append(catchup, CatchupItem(loc[w].host, rec, loc[w].evt))
          /\ Set(w, loc[w], [obs[w] EXCEPT !.enq = @ + 1, !.enqIdx = Len(catchup) + 1,
                                            !.ai = IF ai = <<>> THEN "missing" ELSE "ok"],
                 "done")
    /\ UNCHANGED <<users, pdss, actorInfos, userOrigin, pdsOrigin, crashed, calls, eventVars>>

\* ai, err := bgs.Index.LookupUser(ctx, u.ID); AddToCatchupQueue(ctx, host, ai, evt)
AddToCatchupQueue(w) ==
    /\ ~crashed /\ pc[w] = "h_lookupai"
    /\ LET ai == LookupUser(loc[w].uid)
       IN IF ai = <<>>
          THEN /\ Set(w, [loc[w] EXCEPT !.ret = ErrNotFound],
                      [obs[w] EXCEPT !.ai = "missing"], "done")
               /\ UNCHANGED catchup
          ELSE /\ catchup' = Append(catchup, CatchupItem(loc[w].host, ai[1], loc[w].evt))
               /\ Set(w, loc[w], [obs[w] EXCEPT !.enq = @ + 1, !.enqIdx = Len(catchup) + 1,
                                                 !.ai = "ok"], "done")
    /\ UNCHANGED <<users, pdss, actorInfos, userOrigin, pdsOrigin, crashed, calls, eventVars>>

\* the handler has returned to the subscription manager
Return(w) ==
    /\ ~crashed /\ pc[w] = "done"
    /\ Set(w, ZeroLoc, ZeroObs, "idle")
    /\ UNCHANGED <<Tables, crashed, calls, eventVars>>


\* ------------------------------------------------------------------ createExternalUser
Docs == [Service : ServiceLists, AlsoKnownAs : AkaLists]

\* faulty variant: the service list is not checked
NoServicesNever(doc) == FALSE
\* len(doc.Service) == 0
NoServices(doc) == Len(doc.Service) = 0

\* the indexer calls ix.CreateExternalUser directly
createExternalUser(w) ==
    /\ ~crashed /\ pc[w] = "idle" /\ calls < MaxCalls
    /\ calls' = calls + 1
    /\ \E did \in Dids :
         Set(w, [ZeroLoc EXCEPT !.op = "resolve", !.did = did],
             [ZeroObs EXCEPT !.resolves = 1], "c_getdoc")
    /\ UNCHANGED <<Tables, crashed, eventVars>>

\* GetDocument, the service check, svc := doc.Service[0] and url.Parse
GetDocument(w) ==
    /\ pc[w] = "c_getdoc"
    /\ \/ /\ ~crashed
          /\ FailResolve(w, obs[w], ErrNoDoc)
          /\ UNCHANGED crashed
       \/ /\ ~crashed
          /\ \E doc \in Docs :
               LET o == [obs[w] EXCEPT !.nsvc = Len(doc.Service)]
               IN IF NoServices(doc)
                  THEN FailResolve(w, o, ErrNoService) /\ UNCHANGED crashed
                  ELSE IF Len(doc.Service) = 0
                  THEN \* doc.Service[0]: index out of range
                       Set(w, loc[w], o, "panicked") /\ crashed' = TRUE
                  ELSE IF ~UrlParse(doc.Service[1]).ok
                  THEN FailResolve(w, o, ErrUrl) /\ UNCHANGED crashed
                  ELSE /\ Set(w, [loc[w] EXCEPT !.svc = doc.Service[1],
                                                !.aka = doc.AlsoKnownAs], o, "c_findpds")
                       /\ UNCHANGED crashed
    /\ UNCHANGED <<Tables, calls, eventVars>>

\* s.db.Find(&peering, "host = ?", durl.Host) and the branch on peering.ID
FindPeering(w) ==
    /\ ~crashed /\ pc[w] = "c_findpds"
    /\ \/ FailResolve(w, obs[w], ErrDb)
       \/ LET durl == LoopbackOverride(UrlParse(loc[w].svc))
              peering == FindPdsByHost(durl.Host)
              known == \E i \in 1..Len(pdss) : UrlParse(pdss[i].Host).Host = durl.Host
          IN Set(w, [loc[w] EXCEPT !.peering = peering], [obs[w] EXCEPT !.known = known],
                 IF peering.ID = 0 THEN "c_probe" ELSE "c_profile")
    /\ UNCHANGED <<Tables, crashed, calls, eventVars>>

\* faulty variant: the probe's error is ignored
ProbeFailedNever(r) == FALSE
\* err != nil after atproto.HandleResolve
ProbeFailed(r) == r = "err"

\* pdsdid, err := atproto.HandleResolve(ctx, c, "")
HandleResolve(w) ==
    /\ ~crashed /\ pc[w] = "c_probe"
    /\ \E r \in {"ok", "err"} :
         LET o == [obs[w] EXCEPT !.probes = @ + 1,
                                 !.probe = IF r = "ok" THEN "ok" ELSE "failed"]
         IN IF ProbeFailed(r)
            THEN FailResolve(w, o, ErrProbe)
            ELSE Set(w, [loc[w] EXCEPT !.peering =
                            [@ EXCEPT !.Host = loc[w].svc,
                                      !.Did = IF r = "ok" THEN "did:web:pds" ELSE ""]],
                     o, "c_createpds")
    /\ UNCHANGED <<Tables, crashed, calls, eventVars>>

\* s.db.Create(&peering)
CreatePeering(w) ==
    /\ ~crashed /\ pc[w] = "c_createpds"
    /\ \/ /\ FailResolve(w, obs[w], ErrDb)
          /\ UNCHANGED <<pdss, pdsOrigin>>
       \/ /\ PdsUniqueViolation(loc[w].peering)
          /\ FailResolve(w, obs[w], ErrDb)
          /\ UNCHANGED <<pdss, pdsOrigin>>
       \/ /\ ~PdsUniqueViolation(loc[w].peering)
          /\ pdss' = Append(pdss, [loc[w].peering EXCEPT !.ID = Len(pdss) + 1])
          /\ pdsOrigin' = Append(pdsOrigin, [probe |-> obs[w].probe,
                                             target |-> ClientHost(loc[w].svc)])
          /\ Set(w, [loc[w] EXCEPT !.peering.ID = Len(pdss) + 1],
                 [obs[w] EXCEPT !.mkPds = @ + 1], "c_profile")
    /\ UNCHANGED <<users, actorInfos, catchup, userOrigin, crashed, calls, eventVars>>

\* handle = hurl.Host for the first alias, "" without aliases
DeriveHandle(aka) == IF Len(aka) > 0 THEN UrlParse(aka[1]).Host ELSE <<>>

\* faulty variant: the cross-validation is skipped
HandleMismatchNever(handle, profile) == FALSE
\* handle != profile.Handle
HandleMismatch(handle, profile) == handle # profile.Handle

\* the alias parse, bsky.ActorGetProfile and the cross-validation
ActorGetProfile(w) ==
    /\ ~crashed /\ pc[w] = "c_profile"
    /\ IF Len(loc[w].aka) > 0 /\ ~UrlParse(loc[w].aka[1]).ok
       THEN FailResolve(w, obs[w], ErrUrl)
       ELSE LET handle == DeriveHandle(loc[w].aka)
                o == [obs[w] EXCEPT !.profiles = @ + 1]
            IN \/ FailResolve(w, [o EXCEPT !.profile = "failed"], ErrProfile)
               \/ \E profile \in Profiles :
                    LET l == [loc[w] EXCEPT !.handle = handle, !.profile = profile]
                    IN IF HandleMismatch(handle, profile)
                       THEN Set(w, [l EXCEPT !.ret = IF l.op = "handle"
                                       THEN <<"fed event create external user">> \o ErrMismatch
                                       ELSE ErrMismatch],
                                [o EXCEPT !.profile = "ok", !.resolved = "err"], "done")
                       ELSE Set(w, l, [o EXCEPT !.profile = "ok"], "c_createuser")
    /\ UNCHANGED <<Tables, crashed, calls, eventVars>>

\* faulty variant: the User row is written without its peering host
NewUserNoPds(id, handle, did, peering) ==
    [ID |-> id, Handle |-> handle, Did |-> did, PDS |-> 0]
\* u := User{Handle: handle, Did: did, PDS: peering.ID}
NewUser(id, handle, did, peering) ==
    [ID |-> id, Handle |-> handle, Did |-> did, PDS |-> peering.ID]

\* s.db.Create(&u) and the branch on its error
CreateUser(w) ==
    /\ ~crashed /\ pc[w] = "c_createuser"
    /\ LET u == NewUser(Len(users) + 1, loc[w].handle, loc[w].did, loc[w].peering)
       IN \/ /\ FailResolve(w, obs[w], ErrCreateUser \o ErrDb)
             /\ UNCHANGED <<users, userOrigin>>
          \/ /\ UserUniqueViolation(u)
             /\ FailResolve(w, [obs[w] EXCEPT !.lostRace =
                                   \E i \in 1..Len(users) : users[i].Did = u.Did],
                            ErrCreateUser \o ErrDb)
             /\ UNCHANGED <<users, userOrigin>>
          \/ /\ ~UserUniqueViolation(u)
             /\ users' = Append(users, u)
             /\ userOrigin' = Append(userOrigin,
                    [dirHandle |-> DeriveHandle(loc[w].aka),
                     peerHandle |-> loc[w].profile.Handle])
             /\ Set(w, [loc[w] EXCEPT !.uid = u.ID], [obs[w] EXCEPT !.mkUser = @ + 1],
                    "c_createai")
    /\ UNCHANGED <<pdss, actorInfos, catchup, pdsOrigin, crashed, calls, eventVars>>

\* subj := &models.ActorInfo{...}; s.db.Create(subj); return subj, nil
CreateActorInfo(w) ==
    /\ pc[w] = "c_createai"
    /\ \/ /\ ~crashed /\ loc[w].profile.DisplayName = <<>>
          \* *profile.DisplayName: nil pointer dereference
          /\ crashed' = TRUE
          /\ Set(w, loc[w], obs[w], "panicked")
          /\ UNCHANGED actorInfos
       \/ /\ ~crashed /\ loc[w].profile.DisplayName # <<>>
          /\ FailResolve(w, obs[w], ErrDb)
          /\ UNCHANGED <<actorInfos, crashed>>
       \/ /\ ~crashed /\ loc[w].profile.DisplayName # <<>>
          /\ actorInfos' = Append(actorInfos,
                 [Uid |-> loc[w].uid, Handle |-> loc[w].handle,
                  DisplayName |-> loc[w].profile.DisplayName[1], Did |-> loc[w].did,
                  Type |-> "", PDS |-> loc[w].peering.ID])
          /\ Set(w, loc[w], [obs[w] EXCEPT !.mkAI = @ + 1, !.resolved = "ok"],
                 IF loc[w].op = "handle" THEN "h_merge" ELSE "done")
          /\ UNCHANGED crashed
    /\ UNCHANGED <<users, pdss, catchup, userOrigin, pdsOrigin, calls, eventVars>>

\* the process is started again after a panic: the store persists
Restart ==
    /\ crashed
    /\ crashed' = FALSE
    /\ pc' = [w \in Workers |-> "idle"]
    /\ loc' = [w \in Workers |-> ZeroLoc]
    /\ obs' = [w \in Workers |-> ZeroObs]
    /\ UNCHANGED <<Tables, calls, eventVars>>


\* ------------------------------------------------------------------ /events
Conns == {"c1", "c2"}

\* values of the request's "since" header ("" when the header is absent)
SinceHeaders == {<<>>, <<"1">>, <<"1", "2">>, <<"-", "1">>, <<"1", "x">>}

Digits == {"0", "1", "2", "3", "4", "5", "6", "7", "8", "9"}
DigitVal(c) ==
    CASE c = "0" -> 0 [] c = "1" -> 1 [] c = "2" -> 2 [] c = "3" -> 3 [] c = "4" -> 4
      [] c = "5" -> 5 [] c = "6" -> 6 [] c = "7" -> 7 [] c = "8" -> 8 [] c = "9" -> 9

RECURSIVE ParseDigits(_, _)
ParseDigits(s, acc) ==
    IF s = <<>> THEN acc ELSE ParseDigits(Tail(s), acc * 10 + DigitVal(Head(s)))

\* strconv.ParseInt(s, 10, 64): optional sign, then at least one digit, digits only
ParseInt(s) ==
    LET neg == Len(s) > 0 /\ s[1] = "-"
        body == IF Len(s) > 0 /\ s[1] \in {"-", "+"} THEN Tail(s) ELSE s
    IN IF body = <<>> \/ \E i \in 1..Len(body) : body[i] \notin Digits
       THEN [ok |-> FALSE, val |-> 0]
       ELSE [ok |-> TRUE, val |-> IF neg THEN 0 - ParseDigits(body, 0) ELSE ParseDigits(body, 0)]

\* faulty variant: the cursor is not passed through
SinceArgDropped(hdr) == <<>>
\* the since pointer handed to Subscribe
SinceArg(hdr) == IF hdr = <<>> THEN <<>> ELSE <<ParseInt(hdr).val>>

ZeroHLoc == [sinceHeader |-> <<>>, upgraded |-> FALSE, since |-> <<>>, evt |-> <<>>,
             subscribed |-> FALSE, head |-> 0, cancels |-> 0, ret |-> <<>>,
             req |-> "none", body |-> [ok |-> FALSE, Host |-> <<>>], target |-> <<>>]

\* bodies of POST /add-target: not bindable, {"host": ""}, {"host": "pds.a"}
AddTargetBodies == {[ok |-> FALSE, Host |-> <<>>], [ok |-> TRUE, Host |-> <<>>],
                    [ok |-> TRUE, Host |-> <<"pds.a">>]}

\* body.Host == ""
EmptyHost(body) == body.Host = <<>>

\* POST /add-target: c.Bind, the host check, bgs.slurper.SubscribeToPds
handleAddTarget(c) ==
    /\ hpc[c] = "new"
    /\ hpc' = [hpc EXCEPT ![c] = "returned"]
    /\ \E body \in AddTargetBodies :
         LET l == [hloc[c] EXCEPT !.req = "add-target", !.body = body]
         IN IF ~body.ok
            THEN hloc' = [hloc EXCEPT ![c] = [l EXCEPT !.ret = <<"bind failed">>]]
            ELSE IF EmptyHost(body)
            THEN hloc' = [hloc EXCEPT ![c] = [l EXCEPT !.ret = <<"no host specified">>]]
            ELSE \E err \in {<<>>, <<"subscribe to pds failed">>} :
                   hloc' = [hloc EXCEPT ![c] = [l EXCEPT !.target = <<body.Host>>,
                                                         !.ret = err]]
    /\ UNCHANGED <<ingestVars, evlog, subs, chans, chclosed, frames, wc>>

\* EventManager, publish side: next sequence number, appended to the log and
\* handed to every registered subscription whose cursor it is past
AddEvent ==
    /\ Len(evlog) < MaxEvents
    /\ LET e == [Seq |-> Len(evlog) + 1, Repo |-> "did:plc:a"]
       IN /\ evlog' = Append(evlog, e)
          /\ chans' = [c \in Conns |->
                 IF \E r \in subs : r.conn = c /\ e.Seq > r.cursor
                 THEN Append(chans[c], e) ELSE chans[c]]
    /\ UNCHANGED <<ingestVars, subs, chclosed, hpc, hloc, frames, wc>>

\* EventManager.Subscribe(filter, since): registration and replay in one step
SubscribeReplay(since) ==
    IF since = <<>> THEN <<>> ELSE SelectSeq(evlog, LAMBDA e : e.Seq > since[1])
SubscribeCursor(since) == IF since = <<>> THEN Len(evlog) ELSE since[1]

\* faulty variant: cancel drops every registration
CancelSubsAll(c) == {}
\* cancel(): the registration is removed and the channel closed
CancelSubs(c) == {r \in subs : r.conn # c}

\* websocket.Upgrade
Upgrade(c) ==
    /\ hpc[c] = "new"
    /\ \E hdr \in SinceHeaders :
         \/ /\ hpc' = [hpc EXCEPT ![c] = "returned"]
            /\ hloc' = [hloc EXCEPT ![c] = [@ EXCEPT !.sinceHeader = hdr,
                                                     !.ret = <<"upgrade failed">>]]
         \/ /\ hpc' = [hpc EXCEPT ![c] = "since"]
            /\ hloc' = [hloc EXCEPT ![c] = [@ EXCEPT !.sinceHeader = hdr, !.upgraded = TRUE]]
    /\ UNCHANGED <<ingestVars, evlog, subs, chans, chclosed, frames, wc>>

\* the since header: strconv.ParseInt and since = &sval
ParseSince(c) ==
    /\ hpc[c] = "since"
    /\ IF hloc[c].sinceHeader # <<>> /\ ~ParseInt(hloc[c].sinceHeader).ok
       THEN /\ hpc' = [hpc EXCEPT ![c] = "returned"]
            /\ hloc' = [hloc EXCEPT ![c].ret = <<"invalid syntax">>]
       ELSE /\ hpc' = [hpc EXCEPT ![c] = "subscribe"]
            /\ hloc' = [hloc EXCEPT ![c].since = SinceArg(hloc[c].sinceHeader)]
    /\ UNCHANGED <<ingestVars, evlog, subs, chans, chclosed, frames, wc>>

\* evts, cancel, err := bgs.events.Subscribe(...); defer cancel()
Subscribe(c) ==
    /\ hpc[c] = "subscribe"
    /\ \/ /\ hpc' = [hpc EXCEPT ![c] = "returned"]
          /\ hloc' = [hloc EXCEPT ![c].ret = <<"subscribe failed">>]
          /\ UNCHANGED <<subs, chans>>
       \/ /\ subs' = subs \cup {[conn |-> c, cursor |-> SubscribeCursor(hloc[c].since)]}
          /\ chans' = [chans EXCEPT ![c] = SubscribeReplay(hloc[c].since)]
          /\ hpc' = [hpc EXCEPT ![c] = "recv"]
          /\ hloc' = [hloc EXCEPT ![c].subscribed = TRUE, ![c].head = Len(evlog)]
    /\ UNCHANGED <<ingestVars, evlog, chclosed, frames, wc>>

\* faulty variant: the handler returns without the deferred cancel
ReturnNoCancel(c, err) ==
    /\ hpc' = [hpc EXCEPT ![c] = "returned"]
    /\ hloc' = [hloc EXCEPT ![c].ret = err]
    /\ UNCHANGED <<subs, chclosed>>

\* faulty variant: the handler's return tears down every subscription
ReturnCancelAll(c, err) ==
    /\ subs' = {}
    /\ chclosed' = [d \in Conns |-> TRUE]
    /\ hpc' = [hpc EXCEPT ![c] = "returned"]
    /\ hloc' = [hloc EXCEPT ![c].ret = err, ![c].cancels = @ + 1]

\* return err / return nil after defer cancel(): cancel runs, the handler ends
ReturnCancel(c, err) ==
    /\ subs' = CancelSubs(c)
    /\ chclosed' = [chclosed EXCEPT ![c] = TRUE]
    /\ hpc' = [hpc EXCEPT ![c] = "returned"]
    /\ hloc' = [hloc EXCEPT ![c].ret = err, ![c].cancels = @ + 1]

\* faulty variant: the event taken stays in the channel
RecvRestKeep(ch) == ch
\* what the range loop leaves in the channel after taking one event
RecvRest(ch) == Tail(ch)

\* for evt := range evts
Recv(c) ==
    /\ hpc[c] = "recv"
    /\ \/ /\ chans[c] # <<>>
          /\ hloc' = [hloc EXCEPT ![c].evt = <<Head(chans[c])>>]
          /\ chans' = [chans EXCEPT ![c] = RecvRest(chans[c])]
          /\ hpc' = [hpc EXCEPT ![c] = "nextwriter"]
          /\ UNCHANGED <<subs, chclosed>>
       \/ /\ chans[c] = <<>> /\ chclosed[c]
          /\ ReturnCancel(c, <<>>)
          /\ UNCHANGED chans
    /\ UNCHANGED <<ingestVars, evlog, frames, wc>>

\* wc, err := conn.NextWriter(websocket.BinaryMessage)
NextWriter(c) ==
    /\ hpc[c] = "nextwriter"
    /\ \/ /\ ReturnCancel(c, <<"next writer failed">>)
          /\ UNCHANGED wc
       \/ /\ wc' = [wc EXCEPT ![c] = <<<<>>>>]
          /\ hpc' = [hpc EXCEPT ![c] = "header"]
          /\ UNCHANGED <<subs, chclosed, hloc>>
    /\ UNCHANGED <<ingestVars, evlog, chans, frames>>

\* faulty variant: the body follows without a header
WriteHeaderSkip(c) ==
    /\ hpc[c] = "header"
    /\ hpc' = [hpc EXCEPT ![c] = "body"]
    /\ UNCHANGED <<ingestVars, evlog, subs, chans, chclosed, hloc, frames, wc>>

\* header.MarshalCBOR(wc)
WriteHeader(c) ==
    /\ hpc[c] = "header"
    /\ \/ /\ ReturnCancel(c, <<"failed to write header">>)
          /\ UNCHANGED wc
       \/ /\ wc' = [wc EXCEPT ![c] = <<Append(wc[c][1], [Type |-> "data"])>>]
          /\ hpc' = [hpc EXCEPT ![c] = "body"]
          /\ UNCHANGED <<subs, chclosed, hloc>>
    /\ UNCHANGED <<ingestVars, evlog, chans, frames>>

\* evt.MarshalCBOR(wc)
WriteEvent(c) ==
    /\ hpc[c] = "body"
    /\ \/ /\ ReturnCancel(c, <<"failed to write event">>)
          /\ UNCHANGED wc
       \/ /\ wc' = [wc EXCEPT ![c] = <<Append(wc[c][1], hloc[c].evt[1])>>]
          /\ hpc' = [hpc EXCEPT ![c] = "close"]
          /\ UNCHANGED <<subs, chclosed, hloc>>
    /\ UNCHANGED <<ingestVars, evlog, chans, frames>>

\* wc.Close()
CloseWriter(c) ==
    /\ hpc[c] = "close"
    /\ \/ /\ ReturnCancel(c, <<"failed to flush-close our event write">>)
          /\ UNCHANGED <<wc, frames>>
       \/ /\ frames' = [frames EXCEPT ![c] = Append(@, wc[c][1])]
          /\ wc' = [wc EXCEPT ![c] = <<>>]
          /\ hpc' = [hpc EXCEPT ![c] = "recv"]
          /\ hloc' = [hloc EXCEPT ![c].evt = <<>>]
          /\ UNCHANGED <<subs, chclosed>>
    /\ UNCHANGED <<ingestVars, evlog, chans>>

\* the EventManager ends a subscription from its side: the channel is closed
ServerCancel(c) ==
    /\ \E r \in subs : r.conn = c
    /\ subs' = CancelSubs(c)
    /\ chclosed' = [chclosed EXCEPT ![c] = TRUE]
    /\ UNCHANGED <<ingestVars, evlog, chans, hpc, hloc, frames, wc>>

\* ------------------------------------------------------------------ specifications
Init ==
    /\ users = <<>> /\ pdss = <<>> /\ actorInfos = <<>> /\ catchup = <<>>
    /\ userOrigin = <<>> /\ pdsOrigin = <<>>
    /\ crashed = FALSE /\ calls = 0
    /\ pc = [w \in Workers |-> "idle"]
    /\ loc = [w \in Workers |-> ZeroLoc]
    /\ obs = [w \in Workers |-> ZeroObs]
    /\ evlog = <<>> /\ subs = {}
    /\ chans = [c \in Conns |-> <<>>]
    /\ chclosed = [c \in Conns |-> FALSE]
    /\ hpc = [c \in Conns |-> "new"]
    /\ hloc = [c \in Conns |-> ZeroHLoc]
    /\ frames = [c \in Conns |-> <<>>]
    /\ wc = [c \in Conns |-> <<>>]

Next ==
    \/ \E w \in Workers :
         \/ handleFedEvent(w) \/ lookupUserByDid(w) \/ HandleExternalUserEvent(w)
         \/ AddToCatchupQueue(w) \/ Return(w) \/ createExternalUser(w)
         \/ GetDocument(w) \/ FindPeering(w) \/ HandleResolve(w) \/ CreatePeering(w)
         \/ ActorGetProfile(w) \/ CreateUser(w) \/ CreateActorInfo(w)
    \/ Restart

Spec == Init /\ [][Next]_vars

NextEvents ==
    \/ AddEvent
    \/ \E c \in Conns :
         \/ Upgrade(c) \/ ParseSince(c) \/ Subscribe(c) \/ Recv(c) \/ NextWriter(c)
         \/ WriteHeader(c) \/ WriteEvent(c) \/ CloseWriter(c) \/ ServerCancel(c)
         \/ handleAddTarget(c)

SpecEvents == Init /\ [][NextEvents]_vars


\* ------------------------------------------------------------------ properties
Leaf(err) == IF err = <<>> THEN "" ELSE err[Len(err)]

\* C1: resolution fails with the handle-mismatch error, having created no
\* LocalUser and no ActorInfo, whenever the handle derived from the document's
\* first alias differs from the profile's handle; so every User row carries the
\* handle that both the directory and the peer reported to the call that created it.
C1_HandleMismatchFails ==
    /\ \A w \in Workers :
         (obs[w].profile = "ok" /\ DeriveHandle(loc[w].aka) # loc[w].profile.Handle)
            => /\ pc[w] = "done"
               /\ Leaf(loc[w].ret) = ErrMismatch[1]
               /\ obs[w].mkUser = 0 /\ obs[w].mkAI = 0
    /\ \A i \in 1..Len(users) :
         /\ users[i].Handle = userOrigin[i].dirHandle
         /\ users[i].Handle = userOrigin[i].peerHandle

C1_Witness ==
    /\ users # <<>>
    /\ \E w \in Workers :
         /\ pc[w] = "done" /\ obs[w].profile = "ok"
         /\ DeriveHandle(loc[w].aka) # loc[w].profile.Handle

\* C2: a document with zero service endpoints makes resolution return the
\* no-service error with no PeeringRecord, LocalUser or ActorInfo created and no
\* probe or profile request sent.
C2_NoServiceFails ==
    \A w \in Workers :
        obs[w].nsvc = 0
           => /\ pc[w] = "done"
              /\ Leaf(loc[w].ret) = ErrNoService[1]
              /\ obs[w].mkPds = 0 /\ obs[w].mkUser = 0 /\ obs[w].mkAI = 0
              /\ obs[w].probes = 0 /\ obs[w].profiles = 0

C2_Witness == \E w \in Workers : obs[w].nsvc = 0 /\ pc[w] = "done"

\* C3: every PeeringRecord was created by a call whose probe of that host had
\* succeeded, and a failed probe returns the probe error with no PeeringRecord,
\* LocalUser or ActorInfo created.
C3_PeeringOnlyAfterProbe ==
    /\ \A i \in 1..Len(pdss) :
         /\ pdsOrigin[i].probe = "ok"
         /\ UrlParse(pdsOrigin[i].target).Host = UrlParse(pdss[i].Host).Host
    /\ \A w \in Workers :
         obs[w].probe = "failed"
            => /\ pc[w] = "done"
               /\ Leaf(loc[w].ret) = ErrProbe[1]
               /\ obs[w].mkPds = 0 /\ obs[w].mkUser = 0 /\ obs[w].mkAI = 0

C3_Witness == pdss # <<>> /\ \E w \in Workers : obs[w].probe = "failed"

\* C4: a successful resolution creates exactly one LocalUser and one ActorInfo
\* (and at most one PeeringRecord); a resolution that returns an error has
\* created neither a LocalUser nor an ActorInfo.
C4_AllOrNothing ==
    \A w \in Workers :
        /\ obs[w].resolved = "ok"
              => obs[w].mkUser = 1 /\ obs[w].mkAI = 1 /\ obs[w].mkPds <= 1
        /\ obs[w].resolved = "err" => obs[w].mkUser = 0 /\ obs[w].mkAI = 0

\* C5: a decentralized identifier has at most one User row, and an event whose
\* user the lookup finds neither invokes resolution nor creates a User.
C5_OneUserPerDid ==
    /\ \A i, j \in 1..Len(users) : users[i].Did = users[j].Did => i = j
    /\ \A w \in Workers :
         obs[w].found => obs[w].resolves = 0 /\ obs[w].mkUser = 0

C5_Witness == \E w \in Workers : obs[w].found /\ pc[w] = "done" /\ obs[w].merges = 1

\* C6: a merge that fails with base mismatch makes handle return no error and
\* enqueue exactly one item: the event's source host, the ActorInfo of the
\* event's repository identifier, and the event.
C6_BaseMismatchEnqueues ==
    \A w \in Workers :
        (pc[w] = "done" /\ loc[w].merge = "ErrRepoBaseMismatch")
           => /\ loc[w].ret = <<>>
              /\ obs[w].enq = 1
              /\ obs[w].enqIdx \in 1..Len(catchup)
              /\ catchup[obs[w].enqIdx].host = loc[w].host
              /\ catchup[obs[w].enqIdx].evt = loc[w].evt
              /\ catchup[obs[w].enqIdx].ai.Did = loc[w].evt.Repo
              /\ catchup[obs[w].enqIdx].ai.Uid = loc[w].uid

\* C7: handle enqueues only after a base mismatch: a successful merge returns
\* ok and any other merge error is returned, both with nothing enqueued.
C7_EnqueueOnlyOnBaseMismatch ==
    \A w \in Workers :
        /\ obs[w].enq > 0 => loc[w].merge = "ErrRepoBaseMismatch"
        /\ loc[w].merge = "nil"
              => pc[w] = "done" /\ loc[w].ret = <<>> /\ obs[w].enq = 0
        /\ loc[w].merge = "other"
              => pc[w] = "done" /\ loc[w].ret = ErrMerge /\ obs[w].enq = 0

C7_Witness ==
    /\ catchup # <<>>
    /\ \E w \in Workers : pc[w] = "done" /\ loc[w].merge \in {"nil", "other"}

\* C8: an event that is not a repository append makes handle return the
\* invalid-event error having looked up, resolved, merged, enqueued and
\* created nothing.
C8_InvalidEventNoMutation ==
    \A w \in Workers :
        (loc[w].op = "handle" /\ loc[w].evt.RepoAppend = <<>>)
           => /\ pc[w] = "done"
              /\ loc[w].ret = ErrInvalid
              /\ obs[w] = ZeroObs

C8_Witness ==
    \E w \in Workers : loc[w].op = "handle" /\ loc[w].evt.RepoAppend = <<>> /\ users # <<>>


\* the events a connection has received: the body of each finalized frame
Received(c) == [k \in 1..Len(frames[c]) |-> frames[c][k][2]]

RECURSIVE IsSubseq(_, _)
IsSubseq(a, b) ==
    IF a = <<>> THEN TRUE
    ELSE IF b = <<>> THEN FALSE
    ELSE IF Head(a) = Head(b) THEN IsSubseq(Tail(a), Tail(b))
    ELSE IsSubseq(a, Tail(b))

IsPrefix(a, b) == Len(a) <= Len(b) /\ SubSeq(b, 1, Len(a)) = a

Registered(c) == \E r \in subs : r.conn = c

\* C9: the sequence numbers a subscriber receives are strictly increasing (so
\* none is received twice) and the received events are a subsequence of the
\* publish order.
C9_OrderedSubsequence ==
    \A c \in Conns :
        /\ \A i, j \in 1..Len(frames[c]) :
             i < j => Received(c)[i].Seq < Received(c)[j].Seq
        /\ IsSubseq(Received(c), evlog)

C9_Witness ==
    \E c \in Conns : Len(frames[c]) >= 2 /\ hloc[c].head < Received(c)[2].Seq

\* the cursor a since header asks for
CursorOf(hdr) ==
    CASE hdr = <<"1">> -> 1
      [] hdr = <<"1", "2">> -> 12
      [] hdr = <<"-", "1">> -> 0 - 1

\* C10: a subscription opened with since = S receives exactly the events with
\* sequence number greater than S, in order, retained ones first and live ones
\* after, none skipped and none twice: while it is registered, what it has
\* received, is writing and has waiting in its channel is the log past S; once
\* it has ended, what it received is a prefix of that.
C10_ReplayExactlyPastCursor ==
    \A c \in Conns :
        (hloc[c].subscribed /\ hloc[c].sinceHeader # <<>>)
           => LET expected == SelectSeq(evlog,
                                 LAMBDA e : e.Seq > CursorOf(hloc[c].sinceHeader))
              IN IF Registered(c)
                 THEN Received(c) \o hloc[c].evt \o chans[c] = expected
                 ELSE IsPrefix(Received(c), expected)

C10_Witness ==
    \E c \in Conns :
        /\ hloc[c].sinceHeader = <<"1">> /\ hloc[c].head = 2
        /\ Len(frames[c]) = 2 /\ Registered(c)


\* C11: once EventsHandler has registered a subscription, every exit of the
\* delivery loop (end of the channel, NextWriter, header, body or close failure)
\* runs cancel: the registration is gone from the subscriber set, and no later
\* publish puts an event in that subscriber's channel.
C11_CancelOnEveryExit ==
    /\ [](\A c \in Conns :
            (hloc[c].subscribed /\ hpc[c] = "returned")
               => hloc[c].cancels = 1 /\ ~Registered(c))
    /\ [][\A c \in Conns : hpc[c] = "returned" => chans'[c] = chans[c]]_vars

C11_Witness ==
    \E c, d \in Conns :
        /\ hloc[c].subscribed /\ hpc[c] = "returned" /\ hloc[c].ret # <<>>
        /\ hloc[d].subscribed /\ hpc[d] = "returned" /\ hloc[d].ret = <<>>
        /\ Len(evlog) > hloc[c].head + Len(frames[c]) + Len(chans[c]) + 1


\* C12: a resolution whose first service endpoint is a host that already has a
\* PeeringRecord finds it by lookup, sends no probe, creates no PeeringRecord
\* and does not fail on account of the record; so no host has two
\* PeeringRecords.
C12_KnownHostNotReprobed ==
    /\ \A w \in Workers :
         obs[w].known
            => /\ obs[w].probes = 0 /\ obs[w].mkPds = 0
               /\ loc[w].peering.ID # 0
    /\ \A i, j \in 1..Len(pdss) :
         UrlParse(pdss[i].Host).Host = UrlParse(pdss[j].Host).Host => i = j


\* C13: malformed client input is rejected before any state mutation: an
\* /add-target request with an empty host returns an error without the Host
\* Subscription Manager being invoked, and an /events request with an
\* unparseable since header returns an error with no subscription registered
\* and the connection unchanged.
C13_MalformedRejectedFirst ==
    \A c \in Conns :
        /\ (hloc[c].req = "add-target" /\ hloc[c].body.ok /\ hloc[c].body.Host = <<>>)
              => hloc[c].ret # <<>> /\ hloc[c].target = <<>>
        /\ (hpc[c] = "returned" /\ hloc[c].sinceHeader = <<"1", "x">>)
              => /\ hloc[c].ret # <<>>
                 /\ ~hloc[c].subscribed /\ ~Registered(c)
                 /\ ~hloc[c].upgraded


\* the sequence number a subscription's delivery starts after
StartCursor(c) ==
    IF hloc[c].sinceHeader = <<>> THEN hloc[c].head ELSE CursorOf(hloc[c].sinceHeader)

\* C14: a NextWriter, header, body or close failure on one connection ends
\* that subscription only: the step leaves the event log and every other
\* connection's channel, registration, frames and position as they were, and
\* every registered subscription still has, received or waiting, exactly the
\* log past its cursor.
C14_TransportErrorIsolated ==
    /\ [][\A c \in Conns :
            (hpc[c] \in {"nextwriter", "header", "body", "close"} /\ hpc'[c] = "returned")
               => /\ evlog' = evlog
                  /\ \A d \in Conns \ {c} :
                       /\ chans'[d] = chans[d] /\ chclosed'[d] = chclosed[d]
                       /\ frames'[d] = frames[d] /\ hpc'[d] = hpc[d]
                       /\ (\E r \in subs' : r.conn = d) = (\E r \in subs : r.conn = d)]_vars
    /\ [](\A d \in Conns :
            Registered(d)
               => Received(d) \o hloc[d].evt \o chans[d]
                     = SelectSeq(evlog, LAMBDA e : e.Seq > StartCursor(d)))

C14_Witness ==
    \E c, d \in Conns :
        /\ c # d
        /\ hloc[c].subscribed /\ hpc[c] = "returned" /\ hloc[c].ret # <<>>
        /\ frames[c] = <<>> /\ hloc[c].head = 0
        /\ Registered(d) /\ Len(frames[d]) >= 2


C16_ResolveFailureAborts ==
    \A w \in Workers :
        (loc[w].op = "handle" /\ obs[w].resolved = "err")
           => /\ obs[w].lookups = 1 /\ ~obs[w].found
              /\ pc[w] = "done"
              /\ Len(loc[w].ret) >= 2
              /\ loc[w].ret[1] = "fed event create external user"
              /\ Leaf(loc[w].ret) \in {ErrNoDoc[1], ErrNoService[1], ErrUrl[1], ErrDb[1],
                                       ErrProbe[1], ErrProfile[1], ErrMismatch[1]}
              /\ obs[w].merges = 0 /\ loc[w].merge = "none"
              /\ obs[w].enq = 0
              /\ \A i \in 1..Len(catchup) :
                   ~(catchup[i].evt = loc[w].evt /\ obs[w].enqIdx = i)

C16_Witness ==
    \E w, v \in Workers :
        /\ w # v
        /\ loc[w].op = "handle" /\ obs[w].resolved = "err" /\ pc[w] = "done"
        /\ obs[w].probe = "failed"
        /\ loc[v].op = "handle" /\ obs[v].merges = 1


\* C17: on a connection the steps for an event run in the order open frame,
\* write header, write body, finalize, and a frame is finalized before the next
\* is opened: the open frame holds exactly what the steps so far wrote, no
\* frame is open between events, every finalized frame is one header followed
\* by the one event, and the frames are in delivery order.
C17_FrameOrder ==
    /\ [](\A c \in Conns :
         /\ \A i \in 1..Len(frames[c]) :
              /\ Len(frames[c][i]) = 2
              /\ frames[c][i][1] = [Type |-> "data"]
              /\ frames[c][i][2] \in {evlog[k] : k \in 1..Len(evlog)}
         /\ \A i, j \in 1..Len(frames[c]) :
              i < j => frames[c][i][2].Seq < frames[c][j][2].Seq
         /\ hpc[c] \in {"new", "since", "subscribe", "recv", "nextwriter"} => wc[c] = <<>>
         /\ hpc[c] = "header" => wc[c] = <<<<>>>>
         /\ hpc[c] = "body" => wc[c] = <<<<[Type |-> "data"]>>>>
         /\ hpc[c] = "close" => wc[c] = <<<<[Type |-> "data"], hloc[c].evt[1]>>>>
         /\ hpc[c] \in {"nextwriter", "header", "body", "close"}
              => /\ Len(hloc[c].evt) = 1
                 /\ \A i \in 1..Len(frames[c]) : frames[c][i][2].Seq < hloc[c].evt[1].Seq)
    /\ [][\A c \in Conns :
            /\ Len(frames'[c]) > Len(frames[c])
                 => /\ hpc[c] = "close" /\ hpc'[c] = "recv"
                    /\ frames'[c] = Append(frames[c], <<[Type |-> "data"], hloc[c].evt[1]>>)
            /\ (wc[c] = <<>> /\ wc'[c] # <<>>) => hpc[c] = "nextwriter" /\ hpc'[c] = "header"
         ]_vars

C17_Witness ==
    \E c \in Conns :
        /\ Len(frames[c]) = 2 /\ hpc[c] = "close"
        /\ hloc[c].evt[1].Seq = 3


\* C18: a handleFedEvent call that passed the lookup for an unseen repository
\* and then lost the insert race to a concurrent call for the same repository
\* still goes on to the merge attempt instead of returning an error.
C18_RaceLoserProceeds ==
    \A w \in Workers :
        (loc[w].op = "handle" /\ obs[w].lostRace /\ pc[w] = "done")
           => obs[w].merges >= 1 /\ Leaf(loc[w].ret) # ErrDb[1]


\* C19: every User row references, by a non-zero id, a peering row that is in
\* the store, and every ActorInfo row carries the id, DID, handle and peering
\* id of the User row it was created with.
C19_ReferencesConsistent ==
    /\ \A i \in 1..Len(users) :
         /\ users[i].PDS # 0
         /\ \E j \in 1..Len(pdss) : pdss[j].ID = users[i].PDS
    /\ \A k \in 1..Len(actorInfos) :
         \E i \in 1..Len(users) :
            /\ users[i].ID = actorInfos[k].Uid /\ actorInfos[k].Uid # 0
            /\ users[i].Did = actorInfos[k].Did
            /\ users[i].Handle = actorInfos[k].Handle
            /\ users[i].PDS = actorInfos[k].PDS

C19_Witness ==
    /\ Len(users) = 2 /\ Len(actorInfos) = 2
    /\ \E w, v \in Workers :
         /\ w # v /\ obs[w].mkAI = 1 /\ obs[v].mkAI = 1
         /\ pc[w] = "done" /\ pc[v] = "done"


\* C20: on the base-mismatch path a failed lookup of the user's ActorInfo makes
\* handleFedEvent return that lookup error with nothing enqueued; and when the
\* user was created by this call's own successful resolution the ActorInfo with
\* that id is in the store, so the lookup finds it and the event is enqueued.
C20_LookupFailureNotEnqueued ==
    \A w \in Workers :
        /\ obs[w].ai = "missing"
             => /\ pc[w] = "done" /\ loc[w].merge = "ErrRepoBaseMismatch"
                /\ loc[w].ret = ErrNotFound
                /\ obs[w].enq = 0 /\ obs[w].enqIdx = 0
                /\ ~obs[w].resolved = "ok"
        /\ (loc[w].op = "handle" /\ obs[w].resolved = "ok")
             => /\ \E k \in 1..Len(actorInfos) :
                     actorInfos[k].Uid = loc[w].uid /\ actorInfos[k].Did = loc[w].evt.Repo
                /\ obs[w].ai # "missing"
                /\ (pc[w] = "done" /\ loc[w].merge = "ErrRepoBaseMismatch")
                     => /\ loc[w].ret = <<>> /\ obs[w].enq = 1
                        /\ catchup[obs[w].enqIdx].ai.Uid = loc[w].uid

C20_Witness ==
    \E w, v \in Workers :
        /\ obs[w].ai = "missing" /\ pc[w] = "done"
        /\ obs[v].resolved = "ok" /\ obs[v].ai = "ok" /\ pc[v] = "done"

====
